---- MODULE Spec2Model ----
(***************************************************************************)
(* World Monitor server: the AIS WebSocket relay (setupAisRelay), the      *)
(* response-caching adapter (adaptEdgeHandler) over the Redis              *)
(* compatibility layer, and the route TTL policy (getCacheTTL).            *)
(***************************************************************************)
EXTENDS Integers, Sequences, FiniteSets, TLC

(***************************************************************************)
(* Bounds of the model.                                                    *)
(***************************************************************************)
MaxSockets == 2
MaxClients == 2
MaxMsgs == 2

\* setTimeout(connectUpstream, 5000), in seconds
RECONNECT_DELAY == 5

Sockets == 1..MaxSockets
Clients == 1..MaxClients

Min(a, b) == IF a < b THEN a ELSE b

VARIABLES
    \* ---- relay (setupAisRelay) ----
    upstreamSocket,   \* 0 is null, else the socket held by upstreamSocket
    sockState,        \* readyState of every upstream socket ever created ("none": not created)
    handshook,        \* upstream sockets whose handshake completed
    subscribed,       \* per upstream socket, subscription messages sent on it
    clients,          \* the Set of subscriber handles
    clientState,      \* readyState of each subscriber socket ("none": not connected yet)
    messageCount,
    timers,           \* pending setTimeout(connectUpstream, 5000): seconds since each was set,
                      \* oldest first, counted up to RECONNECT_DELAY
    received,         \* per subscriber, the frames client.send() delivered
    \* ---- relay history (observation only) ----
    log,              \* frames that arrived on the current upstream connection
    joinedAt,         \* Len(log) when the subscriber joined
    leftAt,           \* Len(log) when the subscriber stopped being OPEN (-1: still OPEN)
    staleMsgs,        \* frames that arrived on a superseded socket
    staleClosed,      \* sockets whose 'close' arrived after they were superseded
    \* ---- reconnect timing history (recorded by RelayTimedSpec only) ----
    sinceClose,       \* seconds since the last 'close' of a current connection, counted up
                      \* to RECONNECT_DELAY (-1: none yet)
    closeClean,       \* no reconnect timer was pending when that 'close' arrived
    attempts,         \* sockets created since the current connection last stopped being
                      \* open or connecting
    lastCreate        \* how the last socket was created

VARIABLES
    \* ---- route TTL resolution (getCacheTTL) ----
    ttlPath,          \* the request path handed to getCacheTTL
    ttlResult         \* what it returned (-1: not called yet)

ttlVars == <<ttlPath, ttlResult>>

VARIABLES
    \* ---- environment ----
    redisUrl,             \* process.env.REDIS_URL is set
    ctorThrows,           \* new IORedis(redisUrl) throws
    storeUp,              \* the Redis server answers (else every command rejects)
    store,                \* the server's keys: per key, the value held, if any
    \* ---- api/_redis.js ----
    client,               \* "null" or "ready"
    initFailed,
    clientHist,           \* history: constructions of IORedis so far, the last getClient() result
    \* ---- server.js ----
    started,              \* start() has run
    cacheRedis,           \* null, or the Redis object and whether its _client is set
    cacheRedisInitFailed,
    req,                  \* per request in flight: where its handler is, req and res
    \* ---- history (observation only) ----
    lastOp,               \* the last direct call of a Redis method and what it returned
    lastMget              \* the last direct call of mget: its arguments and its result

cacheVars == <<redisUrl, ctorThrows, storeUp, store, client, initFailed, clientHist, started,
               cacheRedis, cacheRedisInitFailed, req, lastOp, lastMget>>

relayVars == <<upstreamSocket, sockState, handshook, subscribed, clients, clientState,
               messageCount, timers, received>>
relayHist == <<log, joinedAt, leftAt, staleMsgs, staleClosed>>
timingHist == <<sinceClose, closeClean, attempts, lastCreate>>
vars == <<relayVars, relayHist, timingHist, ttlVars, cacheVars>>

(***************************************************************************)
(* Route cache policy: CACHE_TTLS, DEFAULT_TTL, NO_CACHE, getCacheTTL.     *)
(* A path is the sequence of its characters.                               *)
(***************************************************************************)
\* CACHE_TTLS, in the order Object.entries() walks it (insertion order)
CACHE_TTLS == <<
    [route |-> <<"/", "a", "p", "i", "/", "e", "a", "r", "t", "h", "q", "u", "a", "k", "e", "s">>, ttl |-> 60],
    [route |-> <<"/", "a", "p", "i", "/", "o", "p", "e", "n", "s", "k", "y">>, ttl |-> 60],
    [route |-> <<"/", "a", "p", "i", "/", "f", "a", "a", "-", "s", "t", "a", "t", "u", "s">>, ttl |-> 120],
    [route |-> <<"/", "a", "p", "i", "/", "a", "i", "s", "-", "s", "n", "a", "p", "s", "h", "o", "t">>, ttl |-> 120],
    [route |-> <<"/", "a", "p", "i", "/", "h", "a", "c", "k", "e", "r", "n", "e", "w", "s">>, ttl |-> 300],
    [route |-> <<"/", "a", "p", "i", "/", "g", "d", "e", "l", "t", "-", "d", "o", "c">>, ttl |-> 300],
    [route |-> <<"/", "a", "p", "i", "/", "g", "d", "e", "l", "t", "-", "g", "e", "o">>, ttl |-> 300],
    [route |-> <<"/", "a", "p", "i", "/", "f", "i", "n", "n", "h", "u", "b">>, ttl |-> 300],
    [route |-> <<"/", "a", "p", "i", "/", "y", "a", "h", "o", "o", "-", "f", "i", "n", "a", "n", "c", "e">>, ttl |-> 300],
    [route |-> <<"/", "a", "p", "i", "/", "s", "t", "o", "c", "k", "-", "i", "n", "d", "e", "x">>, ttl |-> 300],
    [route |-> <<"/", "a", "p", "i", "/", "c", "o", "i", "n", "g", "e", "c", "k", "o">>, ttl |-> 300],
    [route |-> <<"/", "a", "p", "i", "/", "p", "o", "l", "y", "m", "a", "r", "k", "e", "t">>, ttl |-> 300],
    [route |-> <<"/", "a", "p", "i", "/", "s", "t", "a", "b", "l", "e", "c", "o", "i", "n", "-", "m", "a", "r", "k", "e", "t", "s">>, ttl |-> 300],
    [route |-> <<"/", "a", "p", "i", "/", "c", "l", "o", "u", "d", "f", "l", "a", "r", "e", "-", "o", "u", "t", "a", "g", "e", "s">>, ttl |-> 300],
    [route |-> <<"/", "a", "p", "i", "/", "r", "s", "s", "-", "p", "r", "o", "x", "y">>, ttl |-> 300],
    [route |-> <<"/", "a", "p", "i", "/", "t", "h", "e", "a", "t", "e", "r", "-", "p", "o", "s", "t", "u", "r", "e">>, ttl |-> 300],
    [route |-> <<"/", "a", "p", "i", "/", "f", "i", "r", "m", "s", "-", "f", "i", "r", "e", "s">>, ttl |-> 600],
    [route |-> <<"/", "a", "p", "i", "/", "r", "i", "s", "k", "-", "s", "c", "o", "r", "e", "s">>, ttl |-> 600],
    [route |-> <<"/", "a", "p", "i", "/", "m", "a", "c", "r", "o", "-", "s", "i", "g", "n", "a", "l", "s">>, ttl |-> 600],
    [route |-> <<"/", "a", "p", "i", "/", "n", "g", "a", "-", "w", "a", "r", "n", "i", "n", "g", "s">>, ttl |-> 600],
    [route |-> <<"/", "a", "p", "i", "/", "e", "t", "f", "-", "f", "l", "o", "w", "s">>, ttl |-> 600],
    [route |-> <<"/", "a", "p", "i", "/", "g", "i", "t", "h", "u", "b", "-", "t", "r", "e", "n", "d", "i", "n", "g">>, ttl |-> 600],
    [route |-> <<"/", "a", "p", "i", "/", "a", "c", "l", "e", "d">>, ttl |-> 900],
    [route |-> <<"/", "a", "p", "i", "/", "a", "c", "l", "e", "d", "-", "c", "o", "n", "f", "l", "i", "c", "t">>, ttl |-> 900],
    [route |-> <<"/", "a", "p", "i", "/", "u", "c", "d", "p">>, ttl |-> 900],
    [route |-> <<"/", "a", "p", "i", "/", "h", "a", "p", "i">>, ttl |-> 900],
    [route |-> <<"/", "a", "p", "i", "/", "t", "e", "m", "p", "o", "r", "a", "l", "-", "b", "a", "s", "e", "l", "i", "n", "e">>, ttl |-> 900],
    [route |-> <<"/", "a", "p", "i", "/", "a", "r", "x", "i", "v">>, ttl |-> 1800],
    [route |-> <<"/", "a", "p", "i", "/", "t", "e", "c", "h", "-", "e", "v", "e", "n", "t", "s">>, ttl |-> 1800],
    [route |-> <<"/", "a", "p", "i", "/", "f", "r", "e", "d", "-", "d", "a", "t", "a">>, ttl |-> 3600],
    [route |-> <<"/", "a", "p", "i", "/", "w", "o", "r", "l", "d", "b", "a", "n", "k">>, ttl |-> 3600],
    [route |-> <<"/", "a", "p", "i", "/", "f", "w", "d", "s", "t", "a", "r", "t">>, ttl |-> 1800] >>

DEFAULT_TTL == 120

NO_CACHE == {
    <<"/", "a", "p", "i", "/", "d", "e", "b", "u", "g", "-", "e", "n", "v">>,
    <<"/", "a", "p", "i", "/", "c", "a", "c", "h", "e", "-", "t", "e", "l", "e", "m", "e", "t", "r", "y">>,
    <<"/", "a", "p", "i", "/", "s", "e", "r", "v", "i", "c", "e", "-", "s", "t", "a", "t", "u", "s">>,
    <<"/", "a", "p", "i", "/", "c", "l", "a", "s", "s", "i", "f", "y", "-", "e", "v", "e", "n", "t">>,
    <<"/", "a", "p", "i", "/", "g", "r", "o", "q", "-", "s", "u", "m", "m", "a", "r", "i", "z", "e">>,
    <<"/", "a", "p", "i", "/", "o", "p", "e", "n", "r", "o", "u", "t", "e", "r", "-", "s", "u", "m", "m", "a", "r", "i", "z", "e">>,
    <<"/", "a", "p", "i", "/", "c", "o", "u", "n", "t", "r", "y", "-", "i", "n", "t", "e", "l">>,
    <<"/", "a", "p", "i", "/", "o", "g", "-", "s", "t", "o", "r", "y">>,
    <<"/", "a", "p", "i", "/", "s", "t", "o", "r", "y">> }

\* String.prototype.startsWith
StartsWith(path, prefix) ==
    Len(prefix) <= Len(path) /\ SubSeq(path, 1, Len(prefix)) = prefix

TtlRows == 1..Len(CACHE_TTLS)

\* getCacheTTL with the prefix loop left out
getCacheTTL_ExactOnly(path) ==
    LET exact == {i \in TtlRows : CACHE_TTLS[i].route = path}
    IN  IF exact # {} THEN CACHE_TTLS[CHOOSE i \in exact : TRUE].ttl ELSE DEFAULT_TTL

\* function getCacheTTL(path): own property first, else the first entry, in table
\* order, that the path starts with, else DEFAULT_TTL
getCacheTTL(path) ==
    LET exact == {i \in TtlRows : CACHE_TTLS[i].route = path /\ CACHE_TTLS[i].ttl # 0}
        hits == {i \in TtlRows : StartsWith(path, CACHE_TTLS[i].route)}
    IN  IF exact # {} THEN CACHE_TTLS[CHOOSE i \in exact : TRUE].ttl
        ELSE IF hits # {} THEN CACHE_TTLS[CHOOSE i \in hits : \A j \in hits : i <= j].ttl
        ELSE DEFAULT_TTL

P_api == <<"/", "a", "p", "i">>
P_unknown == P_api \o <<"/", "u", "n", "k", "n", "o", "w", "n", "-", "t", "h", "i", "n", "g">>
P_eia_foo == P_api \o <<"/", "e", "i", "a", "/", "f", "o", "o">>
P_earthquakes == P_api \o <<"/", "e", "a", "r", "t", "h", "q", "u", "a", "k", "e", "s">>
P_story == P_api \o <<"/", "s", "t", "o", "r", "y">>

(***************************************************************************)
(* Redis compatibility layer (class Redis over ioredis) and the caching    *)
(* adapter (adaptEdgeHandler).                                             *)
(***************************************************************************)
Methods == {"GET", "POST"}
Q_ab == "?a=1&b=2"
Q_ba == "?b=2&a=1"

\* a request's URL: the registered route that matches it (routePath), req.path, and
\* the query string; req.originalUrl is path and query
Urls == {[route |-> P_earthquakes, path |-> P_earthquakes, query |-> Q_ab],
         [route |-> P_earthquakes, path |-> P_earthquakes, query |-> Q_ba],
         [route |-> P_story, path |-> P_story, query |-> ""],
         [route |-> P_story, path |-> P_story \o <<"/">>, query |-> ""]}

NoUrl == [route |-> <<>>, path |-> <<>>, query |-> ""]

\* a key made of the path alone
CacheKey_PathOnly(u) == [ns |-> "apicache:", path |-> u.path, query |-> ""]

\* the key of a URL's entry, `apicache:${req.originalUrl}`, and a key of another kind
CacheKey(u) == [ns |-> "apicache:", path |-> u.path, query |-> u.query]
OtherKey == [ns |-> "other:", path |-> <<>>, query |-> ""]
Keys == {CacheKey(u) : u \in Urls} \cup {OtherKey}

ReqIds == {1, 2}

\* ---- what a handler may answer ----
H_none == {}
H_chunked == {<<"content-type", "application/json">>, <<"transfer-encoding", "chunked">>}
H_marked == {<<"content-type", "text/xml">>, <<"x-cache", "REDIS-HIT">>}

\* successful, redirecting, failing and empty answers; bodies of every length modulo 3
Responses ==
    {[status |-> 200, headers |-> H_chunked, body |-> <<77, 0, 255>>],
     [status |-> 299, headers |-> H_marked, body |-> <<255>>],
     [status |-> 200, headers |-> H_none, body |-> <<0, 255>>],
     [status |-> 200, headers |-> H_chunked, body |-> <<>>],
     [status |-> 300, headers |-> H_none, body |-> <<255>>],
     [status |-> 404, headers |-> H_marked, body |-> <<77, 0, 255>>]}
NoResp == [status |-> 0, headers |-> {}, body |-> <<>>]

\* ---- Buffer.toString('base64') / Buffer.from(text, 'base64') ----
\* a base64 text is the sequence of its symbols' values, 64 standing for '='
RECURSIVE Base64Encode(_)
Base64Encode(bytes) ==
    IF Len(bytes) = 0 THEN <<>>
    ELSE IF Len(bytes) = 1
      THEN <<bytes[1] \div 4, (bytes[1] % 4) * 16, 64, 64>>
    ELSE IF Len(bytes) = 2
      THEN <<bytes[1] \div 4, (bytes[1] % 4) * 16 + bytes[2] \div 16, (bytes[2] % 16) * 4, 64>>
    ELSE <<bytes[1] \div 4, (bytes[1] % 4) * 16 + bytes[2] \div 16,
           (bytes[2] % 16) * 4 + bytes[3] \div 64, bytes[3] % 64>>
         \o Base64Encode(SubSeq(bytes, 4, Len(bytes)))

\* a symbol of the alphabet; padding (64) and characters outside the alphabet (65) are
\* passed over by the decoder, which never throws on a string
IsSextet(x) == x \in 0..63

RECURSIVE Base64Symbols(_)
Base64Symbols(sym) ==
    IF Len(sym) < 2 THEN <<>>
    ELSE IF Len(sym) = 2
      THEN <<sym[1] * 4 + sym[2] \div 16>>
    ELSE IF Len(sym) = 3
      THEN <<sym[1] * 4 + sym[2] \div 16, (sym[2] % 16) * 16 + sym[3] \div 4>>
    ELSE <<sym[1] * 4 + sym[2] \div 16, (sym[2] % 16) * 16 + sym[3] \div 4,
           (sym[3] % 4) * 64 + sym[4]>>
         \o Base64Symbols(SubSeq(sym, 5, Len(sym)))

Base64Decode(text) == Base64Symbols(SelectSeq(text, IsSextet))

\* ---- headers: a map from (lower-case) name to value, as a set of pairs ----
SetHeader(h, k, v) == {p \in h : p[1] # k} \cup {<<k, v>>}
RECURSIVE SetHeaders(_, _)
SetHeaders(h, more) ==
    IF more = {} THEN h
    ELSE LET p == CHOOSE q \in more : TRUE
         IN  SetHeaders(SetHeader(h, p[1], p[2]), more \ {p})

\* "Collect headers": every header of the handler's response but transfer-encoding
CollectHeaders(h) == {p \in h : p[1] # "transfer-encoding"}

\* ---- the envelope and its JSON text ----
\* an envelope {s, h, b}; s = 0 and b.def = FALSE stand for a missing field
NoEnv == [s |-> 0, h |-> {}, b |-> [def |-> FALSE, txt |-> <<>>]]

\* the envelope written without its status
EnvelopeOf_NoStatus(resp) ==
    [s |-> 0, h |-> CollectHeaders(resp.headers),
     b |-> [def |-> TRUE, txt |-> Base64Encode(resp.body)]]

\* { s: webResponse.status, h: responseHeaders, b: bodyBuf.toString('base64') }
EnvelopeOf(resp) ==
    [s |-> resp.status, h |-> CollectHeaders(resp.headers),
     b |-> [def |-> TRUE, txt |-> Base64Encode(resp.body)]]

\* a string: either the JSON text of an envelope, or text that is not JSON
JSONstringify(env) == [isJson |-> TRUE, env |-> env]
NoText == [isJson |-> FALSE, env |-> NoEnv]

\* ---- the store ----
NoEntry == [present |-> FALSE, raw |-> NoText, ex |-> 0, method |-> "", url |-> NoUrl,
            orig |-> NoResp]

NullRedis == [obj |-> FALSE, hasClient |-> FALSE]
NoRes == [status |-> 200, headers |-> {}, body |-> <<>>, sent |-> "no"]
IdleReq == [pc |-> "idle", method |-> "", url |-> NoUrl, servedFor |-> NoUrl,
            resp |-> NoResp, res |-> NoRes, outcome |-> "none", served |-> NoResp,
            lookup |-> NoResp, found |-> "none",
            gets |-> 0, sets |-> 0, calls |-> 0, sawStore |-> FALSE, threw |-> FALSE]
NoOp == [op |-> "none", avail |-> FALSE, raised |-> FALSE, val |-> ""]
NoMget == [called |-> FALSE, args |-> <<>>, avail |-> FALSE, result |-> <<>>, held |-> <<>>]

\* the state at module load, for an environment (redisUrl, ctorThrows)
InitCache ==
    /\ redisUrl \in BOOLEAN
    /\ ctorThrows \in BOOLEAN
    /\ storeUp \in BOOLEAN
    /\ store = [k \in Keys |-> NoEntry]
    /\ client = "null"
    /\ initFailed = FALSE
    /\ clientHist = [ctor |-> 0, got |-> "none"]
    /\ started = FALSE
    /\ cacheRedis = NullRedis
    /\ cacheRedisInitFailed = FALSE
    /\ req = [r \in ReqIds |-> IdleReq]
    /\ lastOp = NoOp
    /\ lastMget = NoMget

CacheIdle ==
    /\ redisUrl = FALSE
    /\ ctorThrows = FALSE
    /\ storeUp = FALSE
    /\ store = [k \in Keys |-> NoEntry]
    /\ client = "null"
    /\ initFailed = FALSE
    /\ clientHist = [ctor |-> 0, got |-> "none"]
    /\ started = FALSE
    /\ cacheRedis = NullRedis
    /\ cacheRedisInitFailed = FALSE
    /\ req = [r \in ReqIds |-> IdleReq]
    /\ lastOp = NoOp
    /\ lastMget = NoMget

(***************************************************************************)
(* AIS relay (setupAisRelay).                                              *)
(***************************************************************************)
Live(s) == s # 0 /\ sockState[s] \in {"OPEN", "CONNECTING"}
Created == {s \in Sockets : sockState[s] # "none"}
NextSocket == Cardinality(Created) + 1

NoCreate == [by |-> "none", afterClose |-> FALSE, sinceClose |-> -1, clean |-> FALSE,
             timerAge |-> -1]

InitRelay ==
    /\ upstreamSocket = 0
    /\ sockState = [s \in Sockets |-> "none"]
    /\ handshook = {}
    /\ subscribed = [s \in Sockets |-> 0]
    /\ clients = {}
    /\ clientState = [c \in Clients |-> "none"]
    /\ messageCount = 0
    /\ timers = <<>>
    /\ received = [c \in Clients |-> <<>>]
    /\ log = <<>>
    /\ joinedAt = [c \in Clients |-> 0]
    /\ leftAt = [c \in Clients |-> -1]
    /\ staleMsgs = 0
    /\ staleClosed = {}
    /\ sinceClose = -1
    /\ closeClean = FALSE
    /\ attempts = 0
    /\ lastCreate = NoCreate

\* connectUpstream would create a socket and the model has one left
CanConnect == Live(upstreamSocket) \/ Cardinality(Created) < MaxSockets

\* connectUpstream with a guard that forgets the CONNECTING state
connectUpstream_OpenOnly ==
    IF (upstreamSocket # 0 /\ sockState[upstreamSocket] = "OPEN")
       \/ Cardinality(Created) >= MaxSockets
    THEN UNCHANGED <<upstreamSocket, sockState>>
    ELSE /\ upstreamSocket' = NextSocket
         /\ sockState' = [sockState EXCEPT ![NextSocket] = "CONNECTING"]

\* function connectUpstream(): the guard, new WebSocket(), upstreamSocket = socket
connectUpstream ==
    IF Live(upstreamSocket)
    THEN UNCHANGED <<upstreamSocket, sockState>>
    ELSE /\ upstreamSocket' = NextSocket
         /\ sockState' = [sockState EXCEPT ![NextSocket] = "CONNECTING"]

\* wss.on('connection') that adds the handle and starts no connection
ClientJoin_NoConnect(c) ==
    /\ clientState[c] = "none"
    /\ \A d \in Clients : d < c => clientState[d] # "none"
    /\ CanConnect
    /\ clientState' = [clientState EXCEPT ![c] = "OPEN"]
    /\ clients' = clients \cup {c}
    /\ joinedAt' = [joinedAt EXCEPT ![c] = Len(log)]
    /\ UNCHANGED <<upstreamSocket, sockState, handshook, subscribed, messageCount, timers,
                   received, log, leftAt, staleMsgs, staleClosed>>

\* wss.on('connection'): clients.add(ws); connectUpstream()
ClientJoin(c) ==
    /\ clientState[c] = "none"
    /\ \A d \in Clients : d < c => clientState[d] # "none"   \* handles are numbered as they join
    /\ CanConnect
    /\ clientState' = [clientState EXCEPT ![c] = "OPEN"]
    /\ clients' = clients \cup {c}
    /\ joinedAt' = [joinedAt EXCEPT ![c] = Len(log)]
    /\ connectUpstream
    /\ UNCHANGED <<handshook, subscribed, messageCount, timers, received,
                   log, leftAt, staleMsgs, staleClosed>>

\* ws.on('error'): logs only; the subscriber socket has left OPEN, its 'close' comes later
ClientError(c) ==
    /\ clientState[c] = "OPEN"
    /\ clientState' = [clientState EXCEPT ![c] = "CLOSING"]
    /\ leftAt' = [leftAt EXCEPT ![c] = Len(log)]
    /\ UNCHANGED <<upstreamSocket, sockState, handshook, subscribed, clients, messageCount,
                   timers, received, log, joinedAt, staleMsgs, staleClosed>>

\* ws.on('close') that leaves the handle in the set
ClientClose_NoDelete(c) ==
    /\ clientState[c] \in {"OPEN", "CLOSING"}
    /\ clientState' = [clientState EXCEPT ![c] = "CLOSED"]
    /\ leftAt' = [leftAt EXCEPT ![c] = IF clientState[c] = "OPEN" THEN Len(log) ELSE @]
    /\ UNCHANGED <<upstreamSocket, sockState, handshook, subscribed, clients, messageCount,
                   timers, received, log, joinedAt, staleMsgs, staleClosed>>

\* ws.on('close'): clients.delete(ws)
ClientClose(c) ==
    /\ clientState[c] \in {"OPEN", "CLOSING"}
    /\ clientState' = [clientState EXCEPT ![c] = "CLOSED"]
    /\ clients' = clients \ {c}
    /\ leftAt' = [leftAt EXCEPT ![c] = IF clientState[c] = "OPEN" THEN Len(log) ELSE @]
    /\ UNCHANGED <<upstreamSocket, sockState, handshook, subscribed, messageCount,
                   timers, received, log, joinedAt, staleMsgs, staleClosed>>

\* socket.on('open'): a superseded socket is closed, the current one sends the subscription
OnOpen(s) ==
    IF upstreamSocket # s
    THEN /\ sockState' = [sockState EXCEPT ![s] = "CLOSING"]
         /\ UNCHANGED subscribed
    ELSE /\ sockState' = [sockState EXCEPT ![s] = "OPEN"]
         /\ subscribed' = [subscribed EXCEPT ![s] = @ + 1]

UpstreamOpen(s) ==
    /\ sockState[s] = "CONNECTING"
    /\ handshook' = handshook \cup {s}
    /\ OnOpen(s)
    /\ UNCHANGED <<upstreamSocket, clients, clientState, messageCount, timers,
                   received, log, joinedAt, leftAt, staleMsgs, staleClosed>>

\* the broadcast loop without its readyState test
Broadcast_NoReadyCheck(m) ==
    received' = [c \in Clients |->
                   IF c \in clients THEN Append(received[c], m) ELSE received[c]]

\* the broadcast loop: for (const client of clients) if OPEN, client.send(message)
Broadcast(m) ==
    received' = [c \in Clients |->
                   IF c \in clients /\ clientState[c] = "OPEN"
                   THEN Append(received[c], m) ELSE received[c]]

\* socket.on('message') without the identity test
OnMessage_NoGuard(s, m) ==
    /\ messageCount' = messageCount + 1
    /\ Broadcast(m)

\* socket.on('message'): ignored for a superseded socket, else counted and broadcast
OnMessage(s, m) ==
    IF upstreamSocket # s
    THEN UNCHANGED <<messageCount, received>>
    ELSE /\ messageCount' = messageCount + 1
         /\ Broadcast(m)

\* the upstream's frames are told apart by their number in the order it sent them
NextMsg == Len(log) + staleMsgs + 1

UpstreamMessage(s) ==
    /\ s \in handshook
    /\ sockState[s] \in {"OPEN", "CLOSING"}
    /\ NextMsg <= MaxMsgs
    /\ OnMessage(s, NextMsg)
    /\ log' = IF upstreamSocket = s THEN Append(log, NextMsg) ELSE log
    /\ staleMsgs' = IF upstreamSocket = s THEN staleMsgs ELSE staleMsgs + 1
    /\ UNCHANGED <<upstreamSocket, sockState, handshook, subscribed, clients, clientState,
                   timers, joinedAt, leftAt, staleClosed>>

\* socket.on('error'): logs only; the socket has left OPEN/CONNECTING, its 'close' comes later
UpstreamError(s) ==
    /\ sockState[s] \in {"OPEN", "CONNECTING"}
    /\ sockState' = [sockState EXCEPT ![s] = "CLOSING"]
    /\ UNCHANGED <<upstreamSocket, handshook, subscribed, clients, clientState, messageCount,
                   timers, received, log, joinedAt, leftAt, staleMsgs, staleClosed>>

\* socket.on('close') without the identity test
OnClose_NoGuard(s) ==
    /\ upstreamSocket' = 0
    /\ timers' = Append(timers, 0)

\* socket.on('close') reconnecting only while a subscriber is in the set
OnClose_IfClients(s) ==
    IF upstreamSocket = s
    THEN /\ upstreamSocket' = 0
         /\ timers' = IF clients # {} THEN Append(timers, 0) ELSE timers
    ELSE UNCHANGED <<upstreamSocket, timers>>

\* socket.on('close') that clears the handle and schedules nothing
OnClose_NoReconnect(s) ==
    IF upstreamSocket = s
    THEN /\ upstreamSocket' = 0
         /\ UNCHANGED timers
    ELSE UNCHANGED <<upstreamSocket, timers>>

\* socket.on('close') scheduling the reconnect with no delay: the timer is due at once
OnClose_NoDelay(s) ==
    IF upstreamSocket = s
    THEN /\ upstreamSocket' = 0
         /\ timers' = Append(timers, RECONNECT_DELAY)
    ELSE UNCHANGED <<upstreamSocket, timers>>

\* socket.on('close'): only the current socket clears the handle and schedules a reconnect
OnClose(s) ==
    IF upstreamSocket = s
    THEN /\ upstreamSocket' = 0
         /\ timers' = Append(timers, 0)
    ELSE UNCHANGED <<upstreamSocket, timers>>

UpstreamClose(s) ==
    /\ sockState[s] \in {"OPEN", "CONNECTING", "CLOSING"}
    /\ sockState' = [sockState EXCEPT ![s] = "CLOSED"]
    /\ OnClose(s)
    /\ staleClosed' = IF upstreamSocket = s THEN staleClosed ELSE staleClosed \cup {s}
    /\ UNCHANGED <<handshook, subscribed, clients, clientState, messageCount,
                   received, log, joinedAt, leftAt, staleMsgs>>

\* the oldest reconnect timer fires once its delay has passed: connectUpstream()
TimerFire ==
    /\ timers # <<>>
    /\ Head(timers) >= RECONNECT_DELAY
    /\ CanConnect
    /\ timers' = Tail(timers)
    /\ connectUpstream
    /\ UNCHANGED <<handshook, subscribed, clients, clientState, messageCount,
                   received, log, joinedAt, leftAt, staleMsgs, staleClosed>>

\* d seconds pass
Tick(d) ==
    /\ \/ \E i \in 1..Len(timers) : timers[i] < RECONNECT_DELAY
       \/ (sinceClose >= 0 /\ sinceClose < RECONNECT_DELAY)
    /\ timers' = [i \in 1..Len(timers) |-> Min(timers[i] + d, RECONNECT_DELAY)]
    /\ UNCHANGED <<upstreamSocket, sockState, handshook, subscribed, clients, clientState,
                   messageCount, received, log, joinedAt, leftAt, staleMsgs, staleClosed>>

NoTiming == UNCHANGED timingHist

\* no request is being resolved
TtlIdle == ttlPath = <<>> /\ ttlResult = -1

\* The relay, with time passing a whole reconnect delay at a time.
NextRelay ==
    /\ \/ \E c \in Clients : ClientJoin(c)
       \/ \E c \in Clients : ClientError(c)
       \/ \E c \in Clients : ClientClose(c)
       \/ \E s \in Sockets : UpstreamOpen(s)
       \/ \E s \in Sockets : UpstreamMessage(s)
       \/ \E s \in Sockets : UpstreamError(s)
       \/ \E s \in Sockets : UpstreamClose(s)
       \/ TimerFire
       \/ Tick(RECONNECT_DELAY)
    /\ NoTiming
    /\ UNCHANGED ttlVars
    /\ UNCHANGED cacheVars

\* the relay at start-up; no path being resolved, no request in flight
RelayInit == InitRelay /\ TtlIdle /\ CacheIdle

RelaySpec == RelayInit /\ [][NextRelay]_vars

\* What a step did to the connection, recorded after the step: `elapsed` seconds passed,
\* and a socket it created was created by `by` (a timer of age `timerAge`).
Timing(elapsed, by, timerAge) ==
    LET died == Live(upstreamSocket) /\ sockState'[upstreamSocket] \notin {"OPEN", "CONNECTING"}
        closed == upstreamSocket # 0 /\ upstreamSocket' = 0
        made == upstreamSocket' # 0 /\ upstreamSocket' # upstreamSocket
    IN  /\ sinceClose' = IF closed THEN 0
                         ELSE IF sinceClose >= 0 THEN Min(sinceClose + elapsed, RECONNECT_DELAY)
                         ELSE sinceClose
        /\ closeClean' = IF closed THEN timers = <<>> ELSE closeClean
        /\ attempts' = IF died THEN 0 ELSE IF made THEN attempts + 1 ELSE attempts
        /\ lastCreate' = IF made
                         THEN [by |-> by, afterClose |-> upstreamSocket = 0 /\ sinceClose >= 0,
                               sinceClose |-> sinceClose, clean |-> closeClean,
                               timerAge |-> timerAge]
                         ELSE lastCreate

\* The relay's connection handling with time passing second by second (frames and
\* subscriber departures, which touch no connection state, left out).
NextRelayTimed ==
    /\ \/ \E c \in Clients : ClientJoin(c) /\ Timing(0, "join", -1)
       \/ \E s \in Sockets : UpstreamOpen(s) /\ Timing(0, "none", -1)
       \/ \E s \in Sockets : UpstreamError(s) /\ Timing(0, "none", -1)
       \/ \E s \in Sockets : UpstreamClose(s) /\ Timing(0, "none", -1)
       \/ TimerFire /\ Timing(0, "timer", Head(timers))
       \/ Tick(1) /\ Timing(1, "none", -1)
    /\ UNCHANGED ttlVars
    /\ UNCHANGED cacheVars

RelayTimedSpec == RelayInit /\ [][NextRelayTimed]_vars

RelayIdle == UNCHANGED <<relayVars, relayHist, timingHist>>

\* The relay's connections and subscribers (no frames), with what the runtime
\* guarantees: time passes, a due timer's callback runs, and a socket that has
\* failed emits 'close'.
RelayOnly == NoTiming /\ UNCHANGED ttlVars /\ UNCHANGED cacheVars

NextRelayLive ==
    /\ \/ \E c \in Clients : ClientJoin(c)
       \/ \E c \in Clients : ClientError(c)
       \/ \E c \in Clients : ClientClose(c)
       \/ \E s \in Sockets : UpstreamOpen(s)
       \/ \E s \in Sockets : UpstreamError(s)
       \/ \E s \in Sockets : UpstreamClose(s)
       \/ TimerFire
       \/ Tick(RECONNECT_DELAY)
    /\ RelayOnly

CloseAfterError(s) == sockState[s] = "CLOSING" /\ UpstreamClose(s) /\ RelayOnly

RelayLiveSpec ==
    /\ RelayInit
    /\ [][NextRelayLive]_vars
    /\ WF_vars(Tick(RECONNECT_DELAY) /\ RelayOnly)
    /\ WF_vars(TimerFire /\ RelayOnly)
    /\ \A s \in Sockets : WF_vars(CloseAfterError(s))


\* request paths tried: every table route, each with a nested segment, with one more
\* character and with its last character cut, the NO_CACHE routes, and unlisted paths
TestPaths ==
    {CACHE_TTLS[i].route : i \in TtlRows}
      \cup {CACHE_TTLS[i].route \o <<"/", "f", "o", "o">> : i \in TtlRows}
      \cup {CACHE_TTLS[i].route \o <<"x">> : i \in TtlRows}
      \cup {SubSeq(CACHE_TTLS[i].route, 1, Len(CACHE_TTLS[i].route) - 1) : i \in TtlRows}
      \cup NO_CACHE
      \cup {P_unknown, P_eia_foo, P_api, <<"/">>}

InitTtl ==
    /\ ttlPath \in TestPaths
    /\ ttlResult = -1

\* const ttl = getCacheTTL(req.path)
ResolveTTL ==
    /\ ttlResult = -1
    /\ ttlResult' = getCacheTTL(ttlPath)
    /\ UNCHANGED ttlPath

\* the next request path
NextPath ==
    /\ ttlResult # -1
    /\ ttlPath' \in TestPaths
    /\ ttlResult' = -1

NextTtl ==
    /\ ResolveTTL \/ NextPath
    /\ RelayIdle
    /\ UNCHANGED cacheVars

TtlInit == InitRelay /\ InitTtl /\ CacheIdle

TtlSpec == TtlInit /\ [][NextTtl]_vars

(***************************************************************************)
(* Redis layer and caching adapter: the operations.                        *)
(***************************************************************************)
\* getClient that does not remember a failed construction
GetClient_NoFailFlag ==
    IF client # "null" THEN [client |-> client, initFailed |-> initFailed, ctor |-> FALSE]
    ELSE IF initFailed THEN [client |-> "null", initFailed |-> TRUE, ctor |-> FALSE]
    ELSE IF ~redisUrl THEN [client |-> "null", initFailed |-> FALSE, ctor |-> FALSE]
    ELSE IF ctorThrows THEN [client |-> "null", initFailed |-> FALSE, ctor |-> TRUE]
    ELSE [client |-> "ready", initFailed |-> FALSE, ctor |-> TRUE]

\* function getClient(): the client returned, the module's initFailed after the call,
\* and whether the call constructed an IORedis
GetClient ==
    IF client # "null" THEN [client |-> client, initFailed |-> initFailed, ctor |-> FALSE]
    ELSE IF initFailed THEN [client |-> "null", initFailed |-> TRUE, ctor |-> FALSE]
    ELSE IF ~redisUrl THEN [client |-> "null", initFailed |-> FALSE, ctor |-> FALSE]
    ELSE IF ctorThrows THEN [client |-> "null", initFailed |-> TRUE, ctor |-> TRUE]
    ELSE [client |-> "ready", initFailed |-> FALSE, ctor |-> TRUE]

\* the history after a call of getClient()
GetClientCalled ==
    [ctor |-> clientHist.ctor + (IF GetClient.ctor THEN 1 ELSE 0), got |-> GetClient.client]

\* new Redis(): this._client = getClient()
NewRedis == [obj |-> TRUE, hasClient |-> GetClient.client = "ready"]

\* function getCacheRedis(): what it returns (NullRedis for null)
GetCacheRedis ==
    IF cacheRedis.obj THEN cacheRedis
    ELSE IF cacheRedisInitFailed THEN NullRedis
    ELSE IF ~redisUrl THEN NullRedis
    ELSE NewRedis

\* getCacheRedis() is called: its effect on the two modules' singletons
CallGetCacheRedis ==
    /\ cacheRedis' = GetCacheRedis
    /\ IF cacheRedis.obj \/ cacheRedisInitFailed \/ ~redisUrl
       THEN UNCHANGED <<client, initFailed, clientHist>>
       ELSE /\ client' = GetClient.client
            /\ initFailed' = GetClient.initFailed
            /\ clientHist' = GetClientCalled
    /\ UNCHANGED cacheRedisInitFailed

\* ---- the ioredis commands: a reply, or a rejection when the server is away ----
Reply(v) == [rejected |-> ~storeUp, entry |-> IF storeUp THEN v ELSE NoEntry]

JsNull == [raised |-> FALSE, t |-> "null", env |-> NoEnv]

\* Redis.get without its outer try/catch
RedisGet_NoCatch(redis, reply) ==
    IF ~redis.hasClient THEN JsNull
    ELSE IF reply.rejected THEN [raised |-> TRUE, t |-> "null", env |-> NoEnv]
    ELSE IF ~reply.entry.present THEN JsNull
    ELSE IF reply.entry.raw.isJson
      THEN [raised |-> FALSE, t |-> "obj", env |-> reply.entry.raw.env]
    ELSE [raised |-> FALSE, t |-> "str", env |-> NoEnv]

\* async get(key): null without a client, on a rejection and for a missing key;
\* else the parsed JSON, else the raw string
RedisGet(redis, reply) ==
    IF ~redis.hasClient THEN JsNull
    ELSE IF reply.rejected THEN JsNull
    ELSE IF ~reply.entry.present THEN JsNull
    ELSE IF reply.entry.raw.isJson
      THEN [raised |-> FALSE, t |-> "obj", env |-> reply.entry.raw.env]
    ELSE [raised |-> FALSE, t |-> "str", env |-> NoEnv]

\* async set(key, value, options): 'OK', or null without a client or on a rejection
RedisSet(redis, reply) ==
    IF ~redis.hasClient THEN [raised |-> FALSE, val |-> "null"]
    ELSE IF reply.rejected THEN [raised |-> FALSE, val |-> "null"]
    ELSE [raised |-> FALSE, val |-> "OK"]

\* async del(key): the count, or 0 without a client or on a rejection
RedisDel(redis, reply) ==
    IF ~redis.hasClient THEN [raised |-> FALSE, val |-> "0"]
    ELSE IF reply.rejected THEN [raised |-> FALSE, val |-> "0"]
    ELSE [raised |-> FALSE, val |-> IF reply.entry.present THEN "1" ELSE "0"]

\* async keys(pattern): the keys, or [] without a client or on a rejection
RedisKeys(redis, reply) ==
    IF ~redis.hasClient THEN [raised |-> FALSE, val |-> "[]"]
    ELSE IF reply.rejected THEN [raised |-> FALSE, val |-> "[]"]
    ELSE [raised |-> FALSE,
          val |-> IF \E k \in Keys : store[k].present THEN "[keys]" ELSE "[]"]

\* SET key value EX ttl NX: a key that holds a value keeps it
Written_IfAbsent(k, text, ttl, method, url, orig) ==
    IF store[k].present THEN store
    ELSE [store EXCEPT ![k] = [present |-> TRUE, raw |-> text, ex |-> ttl,
                               method |-> method, url |-> url, orig |-> orig]]

\* what the server holds after SET key value EX ttl
Written(k, text, ttl, method, url, orig) ==
    [store EXCEPT ![k] = [present |-> TRUE, raw |-> text, ex |-> ttl,
                          method |-> method, url |-> url, orig |-> orig]]

\* ---- adaptEdgeHandler ----
\* the route keeps no exclusion list
ShouldCache_Always(routePath) == TRUE

\* const shouldCache = !NO_CACHE.has(routePath)
ShouldCache(routePath) == routePath \notin NO_CACHE

\* req.method === 'GET' && shouldCache
Eligible(method, routePath) == method = "GET" /\ ShouldCache(routePath)

\* the write condition without the body test
Qualifies_AnyBody(resp) == resp.status >= 200 /\ resp.status < 300

\* webResponse.status >= 200 && webResponse.status < 300 && bodyBuf.length > 0
Qualifies(resp) == resp.status >= 200 /\ resp.status < 300 /\ Len(resp.body) > 0

\* "Send response": status, the collected headers, x-cache: MISS, send or end
SendMiss(res, resp) ==
    [status |-> resp.status,
     headers |-> SetHeader(SetHeaders(res.headers, CollectHeaders(resp.headers)),
                           "x-cache", "MISS"),
     body |-> resp.body,
     sent |-> IF Len(resp.body) > 0 THEN "send" ELSE "end"]

\* the hit path up to res.send: status, the stored headers, x-cache: HIT
HitHead(res, data) ==
    [status |-> IF data.s # 0 THEN data.s ELSE 200,
     headers |-> SetHeader(SetHeaders(res.headers, data.h), "x-cache", "HIT"),
     body |-> res.body,
     sent |-> res.sent]

\* the response an envelope stands for
Decoded(data) ==
    [status |-> IF data.s # 0 THEN data.s ELSE 200, headers |-> data.h,
     body |-> Base64Decode(data.b.txt)]

\* res.send(Buffer.from(data.b, 'base64'))
SendHit(res, data) ==
    [HitHead(res, data) EXCEPT !.body = Base64Decode(data.b.txt), !.sent = "send"]

\* catch (err): res.status(500).json({ error, details })
SendError(res) ==
    [status |-> 500,
     headers |-> SetHeader(res.headers, "content-type", "application/json"),
     body |-> <<>>,
     sent |-> "json"]

\* start(): getCacheRedis() before the server listens
Start ==
    /\ ~started
    /\ started' = TRUE
    /\ CallGetCacheRedis
    /\ UNCHANGED <<redisUrl, ctorThrows, storeUp, store, req, lastOp, lastMget>>

\* a request arrives: up to the first await (redis.get, or the handler)
Arrive(r, method, url) ==
    /\ started
    /\ req[r].pc = "idle"
    /\ IF Eligible(method, url.route)
       THEN /\ CallGetCacheRedis
            /\ req' = [req EXCEPT ![r] =
                         [IdleReq EXCEPT !.method = method, !.url = url,
                            !.pc = IF GetCacheRedis.obj THEN "get" ELSE "handler",
                            !.gets = IF GetCacheRedis.obj THEN 1 ELSE 0]]
       ELSE /\ req' = [req EXCEPT ![r] =
                         [IdleReq EXCEPT !.method = method, !.url = url, !.pc = "handler"]]
            /\ UNCHANGED <<client, initFailed, clientHist, cacheRedis, cacheRedisInitFailed>>
    /\ UNCHANGED <<redisUrl, ctorThrows, storeUp, store, started, lastOp, lastMget>>

\* the hit path without its return: after res.send the adapter goes on to the handler
GetReturn_NoReturn(r) ==
    /\ req[r].pc = "get"
    /\ LET q == req[r]
           cached == RedisGet(cacheRedis, Reply(store[CacheKey(q.url)]))
           saw == q.sawStore \/ (cacheRedis.hasClient /\ storeUp)
           found == IF ~(cacheRedis.hasClient /\ storeUp /\ store[CacheKey(q.url)].present)
                    THEN "none"
                    ELSE IF store[CacheKey(q.url)].method = "GET" THEN "entry" ELSE "foreign"
       IN  IF cached.t = "obj" /\ ~cached.raised
           THEN IF cached.env.b.def
                THEN req' = [req EXCEPT ![r] =
                               [q EXCEPT !.pc = "handler", !.outcome = "hit",
                                         !.res = SendHit(q.res, cached.env),
                                         !.served = store[CacheKey(q.url)].orig,
                                         !.servedFor = store[CacheKey(q.url)].url,
                                         !.lookup = Decoded(cached.env),
                                         !.sawStore = saw, !.found = found]]
                ELSE req' = [req EXCEPT ![r] =
                               [q EXCEPT !.pc = "handler",
                                         !.res = HitHead(q.res, cached.env),
                                         !.sawStore = saw, !.found = found]]
           ELSE req' = [req EXCEPT ![r] = [q EXCEPT !.pc = "handler", !.sawStore = saw,
                                                    !.found = found]]
    /\ UNCHANGED <<redisUrl, ctorThrows, storeUp, store, client, initFailed, clientHist, started,
                   cacheRedis, cacheRedisInitFailed, lastOp, lastMget>>

\* redis.get(cacheKey) settles: the hit path, or on to the handler
GetReturn(r) ==
    /\ req[r].pc = "get"
    /\ LET q == req[r]
           cached == RedisGet(cacheRedis, Reply(store[CacheKey(q.url)]))
           saw == q.sawStore \/ (cacheRedis.hasClient /\ storeUp)
           found == IF ~(cacheRedis.hasClient /\ storeUp /\ store[CacheKey(q.url)].present)
                    THEN "none"
                    ELSE IF store[CacheKey(q.url)].method = "GET" THEN "entry" ELSE "foreign"
       IN  IF cached.t = "obj" /\ ~cached.raised
           THEN IF cached.env.b.def
                THEN req' = [req EXCEPT ![r] =
                               [q EXCEPT !.pc = "done", !.outcome = "hit",
                                         !.res = SendHit(q.res, cached.env),
                                         !.served = store[CacheKey(q.url)].orig,
                                         !.servedFor = store[CacheKey(q.url)].url,
                                         !.lookup = Decoded(cached.env),
                                         !.sawStore = saw, !.found = found]]
                ELSE req' = [req EXCEPT ![r] =
                               [q EXCEPT !.pc = "handler",
                                         !.res = HitHead(q.res, cached.env),
                                         !.sawStore = saw, !.found = found]]
           ELSE req' = [req EXCEPT ![r] = [q EXCEPT !.pc = "handler", !.sawStore = saw,
                                                    !.found = found]]
    /\ UNCHANGED <<redisUrl, ctorThrows, storeUp, store, client, initFailed, clientHist, started,
                   cacheRedis, cacheRedisInitFailed, lastOp, lastMget>>

\* the handler's failure escapes the adapter: nothing is sent
HandlerThrows_Uncaught(r) ==
    /\ req[r].pc = "handler"
    /\ req' = [req EXCEPT ![r] = [@ EXCEPT !.pc = "failed", !.calls = @ + 1, !.threw = TRUE]]
    /\ UNCHANGED <<redisUrl, ctorThrows, storeUp, store, client, initFailed, clientHist, started,
                   cacheRedis, cacheRedisInitFailed, lastOp, lastMget>>

\* the handler throws or rejects: the catch block answers 500
HandlerThrows(r) ==
    /\ req[r].pc = "handler"
    /\ req' = [req EXCEPT ![r] =
                 [@ EXCEPT !.pc = "done", !.outcome = "error", !.calls = @ + 1,
                           !.threw = TRUE, !.res = SendError(req[r].res)]]
    /\ UNCHANGED <<redisUrl, ctorThrows, storeUp, store, client, initFailed, clientHist, started,
                   cacheRedis, cacheRedisInitFailed, lastOp, lastMget>>

\* the handler answers: read the body, collect the headers, then either await
\* redis.set or send the response
HandlerReturns(r, resp) ==
    /\ req[r].pc = "handler"
    /\ LET q == req[r]
       IN  IF Eligible(q.method, q.url.route) /\ Qualifies(resp)
           THEN /\ CallGetCacheRedis
                /\ IF GetCacheRedis.obj
                   THEN req' = [req EXCEPT ![r] =
                                  [q EXCEPT !.pc = "set", !.resp = resp, !.calls = @ + 1,
                                            !.sets = 1]]
                   ELSE req' = [req EXCEPT ![r] =
                                  [q EXCEPT !.pc = "done", !.resp = resp, !.calls = @ + 1,
                                            !.outcome = "miss",
                                            !.res = SendMiss(q.res, resp)]]
           ELSE /\ req' = [req EXCEPT ![r] =
                             [q EXCEPT !.pc = "done", !.resp = resp, !.calls = @ + 1,
                                       !.outcome = "miss", !.res = SendMiss(q.res, resp)]]
                /\ UNCHANGED <<client, initFailed, clientHist, cacheRedis, cacheRedisInitFailed>>
    /\ UNCHANGED <<redisUrl, ctorThrows, storeUp, store, started, lastOp, lastMget>>

\* redis.set(cacheKey, JSON.stringify(envelope), { ex: ttl }) settles, then the
\* response is sent
SetReturn(r) ==
    /\ req[r].pc = "set"
    /\ LET q == req[r]
           out == RedisSet(cacheRedis, Reply(NoEntry))
           orig == [status |-> q.resp.status, headers |-> CollectHeaders(q.resp.headers),
                    body |-> q.resp.body]
       IN  /\ store' = IF out.val = "OK"
                       THEN Written(CacheKey(q.url), JSONstringify(EnvelopeOf(q.resp)),
                                    getCacheTTL(q.url.path), q.method, q.url, orig)
                       ELSE store
           /\ req' = [req EXCEPT ![r] =
                        [q EXCEPT !.pc = "done", !.outcome = "miss",
                                  !.res = SendMiss(q.res, q.resp),
                                  !.sawStore = @ \/ out.val = "OK"]]
    /\ UNCHANGED <<redisUrl, ctorThrows, storeUp, client, initFailed, clientHist, started,
                   cacheRedis, cacheRedisInitFailed, lastOp, lastMget>>

\* the response has gone out; the slot is free for the next request
Finish(r) ==
    /\ req[r].pc = "done"
    /\ req' = [req EXCEPT ![r] = IdleReq]
    /\ UNCHANGED <<redisUrl, ctorThrows, storeUp, store, client, initFailed, clientHist, started,
                   cacheRedis, cacheRedisInitFailed, lastOp, lastMget>>

\* ---- the environment ----
\* the Redis server goes away or comes back
StoreFlips ==
    /\ storeUp' = ~storeUp
    /\ UNCHANGED <<redisUrl, ctorThrows, store, client, initFailed, clientHist, started, cacheRedis,
                   cacheRedisInitFailed, req, lastOp, lastMget>>

\* the TTL of an entry elapses
Expire(k) ==
    /\ store[k].present
    /\ store[k].ex > 0
    /\ store' = [store EXCEPT ![k] = NoEntry]
    /\ UNCHANGED <<redisUrl, ctorThrows, storeUp, client, initFailed, clientHist, started, cacheRedis,
                   cacheRedisInitFailed, req, lastOp, lastMget>>

\* a handler calls a method of its own new Redis() on key k (set: a plain string,
\* no expiry)
RedisCall(op, k) ==
    /\ started
    /\ LET redis == NewRedis
           out == CASE op = "get" -> LET g == RedisGet(redis, Reply(store[k]))
                                     IN  [raised |-> g.raised,
                                          val |-> IF g.t = "null" THEN "null" ELSE "value"]
                    [] op = "set" -> RedisSet(redis, Reply(NoEntry))
                    [] op = "del" -> RedisDel(redis, Reply(store[k]))
                    [] op = "keys" -> RedisKeys(redis, Reply(NoEntry))
       IN  /\ lastOp' = [op |-> op, avail |-> redis.hasClient /\ storeUp,
                         raised |-> out.raised, val |-> out.val]
           /\ store' = IF redis.hasClient /\ storeUp /\ ~out.raised
                       THEN IF op = "del" THEN [store EXCEPT ![k] = NoEntry]
                            ELSE IF op = "set" THEN Written(k, NoText, 0, "", NoUrl, NoResp)
                            ELSE store
                       ELSE store
    /\ client' = GetClient.client
    /\ initFailed' = GetClient.initFailed
    /\ clientHist' = GetClientCalled
    /\ UNCHANGED <<redisUrl, ctorThrows, storeUp, started, cacheRedis,
                   cacheRedisInitFailed, req, lastMget>>

\* ---- Redis.mget ----
\* an argument of mget: one key, or one list of keys
OneKey(k) == [list |-> FALSE, keys |-> <<k>>]
KeyList(ks) == [list |-> TRUE, keys |-> ks]

\* keys.flat()
RECURSIVE Flat(_)
Flat(args) == IF args = <<>> THEN <<>> ELSE Head(args).keys \o Flat(Tail(args))

\* raw => raw === null ? null : JSON.parse(raw), or raw itself
Value(entry) ==
    IF ~entry.present THEN [t |-> "null", env |-> NoEnv]
    ELSE IF entry.raw.isJson THEN [t |-> "obj", env |-> entry.raw.env]
    ELSE [t |-> "str", env |-> NoEnv]

\* async mget(...keys): without a client one null per ARGUMENT; on a rejection (the
\* server away, or MGET sent without a key) one null per key; else the values in order
RedisMget(redis, args) ==
    IF ~redis.hasClient THEN [i \in 1..Len(args) |-> Value(NoEntry)]
    ELSE IF ~storeUp \/ Flat(args) = <<>>
      THEN [i \in 1..Len(Flat(args)) |-> Value(NoEntry)]
    ELSE [i \in 1..Len(Flat(args)) |-> Value(store[Flat(args)[i]])]

\* keys a handler reads together
K_a == OtherKey
K_b == CacheKey([route |-> P_earthquakes, path |-> P_earthquakes, query |-> Q_ab])
MgetKeys == {K_a, K_b}
MgetArgs ==
    {<<>>, <<OneKey(K_a)>>, <<OneKey(K_a), OneKey(K_b)>>, <<OneKey(K_b), OneKey(K_a)>>,
     <<KeyList(<<>>)>>, <<KeyList(<<K_a>>)>>, <<KeyList(<<K_a, K_b>>)>>,
     <<KeyList(<<K_b, K_a>>)>>}

\* a handler calls mget of its own new Redis()
MgetCall(args) ==
    /\ started
    /\ lastMget' = [called |-> TRUE, args |-> args, avail |-> NewRedis.hasClient /\ storeUp,
                    result |-> RedisMget(NewRedis, args),
                    held |-> [i \in 1..Len(Flat(args)) |-> store[Flat(args)[i]]]]
    /\ client' = GetClient.client
    /\ initFailed' = GetClient.initFailed
    /\ clientHist' = GetClientCalled
    /\ UNCHANGED <<redisUrl, ctorThrows, storeUp, store, started, cacheRedis,
                   cacheRedisInitFailed, req, lastOp>>

\* values under a cache key that this adapter did not write: a string that is not
\* JSON, an envelope without its body field, an envelope whose body is not base64
E_nobody == [s |-> 404, h |-> {<<"content-type", "text/plain">>},
             b |-> [def |-> FALSE, txt |-> <<>>]]
E_badbody == [s |-> 200, h |-> {}, b |-> [def |-> TRUE, txt |-> <<65, 65, 65>>]]
CorruptTexts == {NoText, JSONstringify(E_nobody), JSONstringify(E_badbody)}

\* some other writer sets the value under key k (no expiry)
ForeignWrite(k, text) ==
    /\ started
    /\ store' = Written(k, text, 0, "", NoUrl, NoResp)
    /\ UNCHANGED <<redisUrl, ctorThrows, storeUp, client, initFailed, clientHist, started, cacheRedis,
                   cacheRedisInitFailed, req, lastOp, lastMget>>

\* requests served one at a time
NextCache ==
    /\ \/ Start
       \/ \E m \in Methods, u \in Urls : Arrive(1, m, u)
       \/ GetReturn(1)
       \/ HandlerThrows(1)
       \/ \E resp \in Responses : HandlerReturns(1, resp)
       \/ SetReturn(1)
       \/ Finish(1)
       \/ StoreFlips
       \/ \E k \in Keys : Expire(k)
       \/ \E op \in {"get", "set", "del", "keys"} : RedisCall(op, OtherKey)
    /\ RelayIdle
    /\ UNCHANGED ttlVars

CacheInit == InitRelay /\ TtlIdle /\ InitCache

CacheSpec == CacheInit /\ [][NextCache]_vars

\* GET requests for one URL, two of them in flight at a time in any interleaving of
\* their steps
NextConcurrent ==
    /\ \/ Start
       \/ \E r \in ReqIds :
             \/ Arrive(r, "GET", [route |-> P_earthquakes, path |-> P_earthquakes,
                                  query |-> Q_ab])
             \/ GetReturn(r)
             \/ HandlerThrows(r)
             \/ \E resp \in Responses : HandlerReturns(r, resp)
             \/ SetReturn(r)
             \/ Finish(r)
    /\ RelayIdle
    /\ UNCHANGED ttlVars

ConcurrentSpec == CacheInit /\ [][NextConcurrent]_vars

\* handlers reading and writing their own keys
NextMget ==
    /\ \/ Start
       \/ StoreFlips
       \/ \E op \in {"set", "del"}, k \in MgetKeys : RedisCall(op, k)
       \/ \E args \in MgetArgs : MgetCall(args)
    /\ RelayIdle
    /\ UNCHANGED ttlVars

MgetSpec == CacheInit /\ [][NextMget]_vars

\* the cache with values written under a cache key by others
NextCorrupt ==
    \/ NextCache
    \/ /\ \E text \in CorruptTexts :
             ForeignWrite(CacheKey([route |-> P_earthquakes, path |-> P_earthquakes,
                                    query |-> Q_ab]), text)
       /\ RelayIdle
       /\ UNCHANGED ttlVars

CorruptSpec == CacheInit /\ [][NextCorrupt]_vars

\* the continuation of request r after an await: the awaited promise (a Redis command,
\* the handler) settles and the event loop resumes the adapter
Resume(r) ==
    /\ \/ GetReturn(r)
       \/ HandlerThrows(r)
       \/ \E resp \in Responses : HandlerReturns(r, resp)
       \/ SetReturn(r)
    /\ RelayIdle
    /\ UNCHANGED ttlVars

\* every awaited promise settles
CacheFairSpec == CacheSpec /\ \A r \in ReqIds : WF_vars(Resume(r))

(***************************************************************************)
(* Relay properties.                                                       *)
(***************************************************************************)
Expected(c, upto) == SubSeq(log, joinedAt[c] + 1, upto)
HasLeft(c) == clientState[c] \in {"CLOSING", "CLOSED"}

\* C1: in every reachable state at most one upstream socket created by
\* connectUpstream is OPEN or CONNECTING.
C1_AtMostOneLive ==
    Cardinality({s \in Sockets : sockState[s] \in {"OPEN", "CONNECTING"}}) <= 1

\* a second socket is connecting while the one it superseded has not closed yet
C1_Witness ==
    \E s1, s2 \in Sockets :
        /\ s1 # s2
        /\ sockState[s1] = "CLOSING"
        /\ upstreamSocket = s2
        /\ Live(s2)
        /\ clients # {}

\* C2: every subscriber that is OPEN has received exactly the frames that arrived
\* on the current upstream connection since it joined, each once, unmodified, in
\* the order the upstream sent them.
C2_DeliveredInOrder ==
    \A c \in Clients :
        clientState[c] = "OPEN" => received[c] = Expected(c, Len(log))

\* two subscribers stayed connected and both hold the same two or more frames
C2_Witness ==
    /\ Len(log) >= 2
    /\ \A c \in Clients : clientState[c] = "OPEN" /\ joinedAt[c] = 0 /\ received[c] = log
    /\ Cardinality(clients) >= 2

\* C3: a subscriber that has disconnected holds only the frames that arrived before
\* its disconnect, and every other subscriber still connected holds every frame
\* that arrived since it joined.
C3_NoDeliveryAfterLeave ==
    \A c \in Clients :
        HasLeft(c) =>
            /\ received[c] = Expected(c, leftAt[c])
            /\ \A d \in Clients \ {c} :
                   clientState[d] = "OPEN" => received[d] = Expected(d, Len(log))

\* a subscriber left mid-stream, is still in the set, and a frame arrived afterwards
\* that another subscriber received
C3_Witness ==
    \E c, d \in Clients :
        /\ clientState[c] = "CLOSING"
        /\ c \in clients
        /\ received[c] # <<>>
        /\ leftAt[c] < Len(log)
        /\ clientState[d] = "OPEN"
        /\ Len(received[d]) > Len(received[c])

C5_StaleEventsIgnored ==
    [][\A s \in Sockets :
          (upstreamSocket # s /\ (UpstreamOpen(s) \/ UpstreamMessage(s) \/ UpstreamClose(s)))
            => /\ upstreamSocket' = upstreamSocket
               /\ sockState'[s] # "OPEN"
               /\ subscribed' = subscribed
               /\ messageCount' = messageCount
               /\ received' = received
               /\ timers' = timers]_vars

\* a superseded socket delivered a frame and its 'close' while a newer socket was current
C5_Witness ==
    /\ staleMsgs > 0
    /\ staleClosed # {}
    /\ upstreamSocket # 0
    /\ clients # {}

(***************************************************************************)
(* Route TTL properties.                                                   *)
(***************************************************************************)
\* the policy as stated: the entry equal to the path, else the longest entry that is
\* a prefix of the path, else the default
PolicyTTL(path) ==
    LET exact == {i \in TtlRows : CACHE_TTLS[i].route = path}
        pre == {i \in TtlRows : StartsWith(path, CACHE_TTLS[i].route)}
        longest == CHOOSE i \in pre :
                      \A j \in pre : Len(CACHE_TTLS[j].route) <= Len(CACHE_TTLS[i].route)
    IN  IF exact # {} THEN CACHE_TTLS[CHOOSE i \in exact : TRUE].ttl
        ELSE IF pre # {} THEN CACHE_TTLS[longest].ttl
        ELSE 120

\* C10: getCacheTTL returns the TTL of the table entry equal to the path, else that
\* of the longest table route that is a prefix of the path, else 120; /api/earthquakes
\* resolves to 60 and /api/unknown-thing to 120.
C10_TtlResolution ==
    ttlResult # -1 =>
        /\ ttlResult = PolicyTTL(ttlPath)
        /\ ttlPath = P_earthquakes => ttlResult = 60
        /\ ttlPath = P_unknown => ttlResult = 120

\* a nested path that two table routes are prefixes of was resolved by prefix
C10_Witness ==
    /\ ttlResult = 900
    /\ \A i \in TtlRows : CACHE_TTLS[i].route # ttlPath
    /\ Cardinality({i \in TtlRows : StartsWith(ttlPath, CACHE_TTLS[i].route)}) = 2

(***************************************************************************)
(* Response cache properties.                                              *)
(***************************************************************************)
CacheEntries == {k \in Keys : k.ns = "apicache:" /\ store[k].present}
Done(r) == req[r].pc = "done"
NotEligible(q) == q.method # "GET" \/ q.url.route \in NO_CACHE
Successful(resp) == resp.status \in 200..299 /\ resp.body # <<>>
StoreAvailable == cacheRedis.hasClient /\ storeUp

\* C6: a request answered from the cache is answered from the entry stored for its
\* path and query: the lookup's decoded envelope is the stored response (status,
\* collected headers, body bytes), and the response sent has that status, that body
\* and those headers, with x-cache set to HIT.
C6_RoundTrip ==
    \A r \in ReqIds :
        Done(r) /\ req[r].outcome = "hit" =>
            /\ Successful(req[r].served)
            /\ req[r].lookup = req[r].served
            /\ req[r].res.status = req[r].served.status
            /\ req[r].res.body = req[r].served.body
            /\ req[r].res.headers = SetHeader(req[r].served.headers, "x-cache", "HIT")
            /\ req[r].res.sent = "send"

\* a hit on an entry stored with status 299, a one-byte body (two padding symbols)
\* and a handler header named x-cache
C6_Witness ==
    \E r \in ReqIds :
        /\ Done(r) /\ req[r].outcome = "hit"
        /\ req[r].served.status = 299
        /\ req[r].served.body = <<255>>
        /\ <<"x-cache", "REDIS-HIT">> \in req[r].served.headers
        /\ req[r].calls = 0

\* C7: a request that is not a GET, or whose route is in NO_CACHE, makes no cache
\* lookup and no cache write, and no entry is ever held for such a request.
C7_IneligibleBypass ==
    /\ \A r \in ReqIds :
          req[r].pc # "idle" /\ NotEligible(req[r]) =>
              /\ req[r].gets = 0
              /\ req[r].sets = 0
              /\ req[r].outcome # "hit"
    /\ \A k \in CacheEntries : store[k].method = "GET" /\ store[k].url.route \notin NO_CACHE

\* a GET on a NO_CACHE route, by a path that is not the route's own spelling, answered
\* 2xx with a body while the store was available
C7_Witness ==
    \E r \in ReqIds :
        /\ Done(r)
        /\ req[r].method = "GET" /\ req[r].url.route \in NO_CACHE
        /\ req[r].url.path \notin NO_CACHE
        /\ Successful(req[r].resp)
        /\ StoreAvailable
        /\ CacheEntries # {}

\* C8: a write is issued only for a response with status in [200,300) and a
\* non-empty body, and every entry held was written from such a response.
C8_OnlySuccessfulStored ==
    /\ \A r \in ReqIds :
          req[r].calls > 0 /\ ~req[r].threw /\ ~Successful(req[r].resp) => req[r].sets = 0
    /\ \A k \in CacheEntries : Successful(store[k].orig)

\* an eligible GET answered 200 with an empty body while the store was available
\* and held nothing under its key
C8_Witness ==
    \E r \in ReqIds :
        /\ Done(r)
        /\ ~NotEligible(req[r])
        /\ req[r].resp.status = 200 /\ req[r].resp.body = <<>>
        /\ req[r].gets = 1 /\ req[r].sawStore
        /\ StoreAvailable
        /\ ~store[CacheKey(req[r].url)].present

Sentinel(op) ==
    CASE op = "get" -> "null"
      [] op = "set" -> "null"
      [] op = "del" -> "0"
      [] op = "keys" -> "[]"

\* C9: a Redis method called while the store is unconfigured or unreachable returns
\* its sentinel and does not raise; a request that found the store away at each of
\* its cache operations is answered with its handler's response (the handler called
\* once), or with 500 if the handler itself threw.
C9_StoreAwayIsSilent ==
    /\ lastOp.op # "none" /\ ~lastOp.avail =>
          ~lastOp.raised /\ lastOp.val = Sentinel(lastOp.op)
    /\ \A r \in ReqIds :
          Done(r) /\ ~req[r].sawStore =>
              /\ req[r].calls = 1
              /\ IF req[r].threw
                 THEN req[r].outcome = "error" /\ req[r].res.status = 500
                 ELSE /\ req[r].outcome = "miss"
                      /\ req[r].res.status = req[r].resp.status
                      /\ req[r].res.body = req[r].resp.body
                      /\ req[r].res.headers =
                           SetHeader(CollectHeaders(req[r].resp.headers), "x-cache", "MISS")

\* with a client whose server is away: a direct call has returned its sentinel, and
\* a request whose lookup and write both failed has been answered by its handler
C9_Witness ==
    /\ client = "ready" /\ ~storeUp
    /\ lastOp.op = "del" /\ ~lastOp.avail
    /\ \E r \in ReqIds :
          /\ Done(r) /\ ~req[r].sawStore
          /\ req[r].gets = 1 /\ req[r].sets = 1
          /\ req[r].outcome = "miss"

Marked(res) == \E p \in res.headers : p[1] = "x-cache" /\ p[2] \in {"HIT", "MISS"}

\* C11: every response the adapter emits carries x-cache: HIT or x-cache: MISS, the
\* response emitted when the handler throws included.
C11_AsClaimed ==
    \A r \in ReqIds : Done(r) => Marked(req[r].res)

HandlerAnswer(q) ==
    /\ q.outcome = "miss"
    /\ q.calls = 1
    /\ q.res.status = q.resp.status
    /\ q.res.body = q.resp.body
    /\ <<"x-cache", "MISS">> \in q.res.headers

\* C13: a request that finds under its key a value that is no envelope (not JSON, body
\* field missing, body field malformed) takes the miss path: the handler is invoked
\* and its response is returned tagged MISS (500 only if the handler itself throws).
C13_AsClaimed ==
    \A r \in ReqIds :
        Done(r) /\ req[r].found = "foreign" =>
            IF req[r].threw THEN req[r].res.status = 500 ELSE HandlerAnswer(req[r])

\* C14: a request answered from the cache is answered from an entry written for its
\* own path and query string; /api/earthquakes?a=1&b=2 and /api/earthquakes?b=2&a=1
\* never share an entry.
C14_DistinctKeys ==
    \A r \in ReqIds :
        Done(r) /\ req[r].outcome = "hit" =>
            /\ req[r].servedFor.path = req[r].url.path
            /\ req[r].servedFor.query = req[r].url.query

\* a hit for ?b=2&a=1 while a different response is held for ?a=1&b=2
C14_Witness ==
    \E r \in ReqIds, u \in Urls :
        /\ Done(r) /\ req[r].outcome = "hit"
        /\ req[r].url.query = Q_ba
        /\ u.path = req[r].url.path /\ u.query = Q_ab
        /\ store[CacheKey(u)].present
        /\ store[CacheKey(u)].orig # req[r].served

ConnState ==
    IF client = "ready" THEN "ready" ELSE IF initFailed THEN "failed" ELSE "uninitialized"

\* C15: the connection state only moves uninitialized -> ready or uninitialized ->
\* failed; at most one IORedis is ever constructed; once ready, every getClient call
\* returns the client (and the adapter's memoized Redis holds it); once failed, every
\* call returns null and nothing is constructed again.
C15_ConnectOnce ==
    /\ [](/\ clientHist.ctor <= 1
          /\ ConnState = "ready" => clientHist.got = "ready" /\ clientHist.ctor = 1
          /\ ConnState = "failed" => clientHist.got = "null" /\ clientHist.ctor = 1
          /\ ConnState = "uninitialized" => clientHist.ctor = 0
          /\ cacheRedis.obj => (cacheRedis.hasClient <=> client = "ready"))
    /\ [][ConnState' # ConnState => ConnState = "uninitialized"]_vars

\* after a failed construction, a later getClient call (by a direct Redis call) has
\* returned null
C15_Witness ==
    /\ ConnState = "failed"
    /\ clientHist.ctor = 1
    /\ lastOp.op = "get"
    /\ \E r \in ReqIds : Done(r) /\ req[r].gets = 1

(***************************************************************************)
(* Relay properties: reconnection, subscriber departure.                   *)
(***************************************************************************)
\* C16: every upstream socket that fails or closes is eventually followed by a newer
\* upstream socket, however many went before it and whether or not a subscriber is
\* connected (for every socket but the last one the model has).
C16_ReconnectAlways ==
    \A s \in Sockets \ {MaxSockets} :
        (sockState[s] \in {"CLOSING", "CLOSED"}) ~> (sockState[s + 1] # "none")

\* the only subscriber that ever joined has gone, the socket its join created has
\* closed as the current one, and the reconnect timer has created the next socket
C16_Witness ==
    /\ clientState[1] = "CLOSED"
    /\ \A c \in Clients \ {1} : clientState[c] = "none"
    /\ sockState[1] = "CLOSED" /\ 1 \notin staleClosed
    /\ upstreamSocket = 2

upstreamState == <<upstreamSocket, sockState, handshook, subscribed, timers>>
Errored(c) == clientState[c] = "OPEN" /\ clientState'[c] = "CLOSING"
Closed(c) == clientState[c] \in {"OPEN", "CLOSING"} /\ clientState'[c] = "CLOSED"

\* C17 as claimed: when a subscriber connection closes or raises an error, its handle is
\* removed from the subscriber set and the upstream connection state is unchanged.
C17_AsClaimed ==
    [][\A c \in Clients :
          Errored(c) \/ Closed(c) => c \notin clients' /\ UNCHANGED upstreamState]_vars

\* C17: a subscriber's close event removes its handle, and only its handle, from the
\* subscriber set; its error event leaves the set as it is (the handle goes at the
\* close event that follows); neither changes the upstream connection state.
C17_SubscriberLeave ==
    [][\A c \in Clients :
          /\ Closed(c) => clients' = clients \ {c} /\ UNCHANGED upstreamState
          /\ Errored(c) => clients' = clients /\ UNCHANGED upstreamState]_vars

\* one subscriber has closed and is out of the set, another has raised an error and
\* is still in it, and the upstream connection is live
C17_Witness ==
    /\ clientState[1] = "CLOSED" /\ 1 \notin clients
    /\ clientState[2] = "CLOSING" /\ 2 \in clients
    /\ Live(upstreamSocket)

(***************************************************************************)
(* Redis layer properties.                                                 *)
(***************************************************************************)
\* C18: mget returns one position per requested key, in the order of the keys, each
\* holding the key's decoded value or null, all null when the store is unavailable;
\* whether the keys are passed as separate arguments or as one list.
C18_AsClaimed ==
    lastMget.called =>
        /\ Len(lastMget.result) = Len(Flat(lastMget.args))
        /\ \A i \in 1..Len(Flat(lastMget.args)) :
              lastMget.result[i] =
                  IF lastMget.avail THEN Value(lastMget.held[i]) ELSE Value(NoEntry)

(***************************************************************************)
(* Response cache properties: concurrent requests, the hit path.           *)
(***************************************************************************)
StoredFrom(resp) ==
    [status |-> resp.status, headers |-> CollectHeaders(resp.headers), body |-> resp.body]

\* C19: requests that miss are not coalesced: each one that has been answered from
\* its handler called the handler exactly once and, its response being successful
\* and a store configured, issued its own write; and the entry a write leaves under
\* the key is that request's response, whatever was there before.
C19_NoCoalescing ==
    /\ [](\A r \in ReqIds :
            Done(r) /\ req[r].outcome = "miss" =>
                /\ req[r].calls = 1
                /\ Successful(req[r].resp) /\ cacheRedis.obj => req[r].sets = 1)
    /\ [][\A r \in ReqIds :
            req[r].pc = "set" /\ req'[r].pc = "done" /\ StoreAvailable =>
                /\ store'[CacheKey(req[r].url)].present
                /\ store'[CacheKey(req[r].url)].orig = StoredFrom(req[r].resp)
                /\ store'[CacheKey(req[r].url)].raw = JSONstringify(EnvelopeOf(req[r].resp))]_vars

\* two requests for the same URL both looked the cache up and found nothing, both
\* called the handler, both wrote, and the entry held is the second one's, which
\* differs from the first one's
C19_Witness ==
    /\ StoreAvailable
    /\ \A r \in ReqIds :
          /\ Done(r) /\ req[r].outcome = "miss"
          /\ req[r].gets = 1 /\ req[r].found = "none" /\ req[r].sawStore
          /\ req[r].calls = 1 /\ req[r].sets = 1
    /\ req[1].url = req[2].url
    /\ req[1].resp # req[2].resp
    /\ store[CacheKey(req[2].url)].orig = StoredFrom(req[2].resp)
    /\ store[CacheKey(req[1].url)].orig # StoredFrom(req[1].resp)

\* C20: an eligible GET that finds an entry under its key is answered from it, tagged
\* HIT, with no handler call and no cache write by the request; the lookup leaves
\* every entry, content and expiry, as it was.
C20_HitReadsOnly ==
    /\ [](\A r \in ReqIds :
            /\ Done(r) /\ req[r].found = "entry" => req[r].outcome = "hit"
            /\ req[r].outcome = "hit" =>
                  /\ Done(r)
                  /\ req[r].calls = 0
                  /\ req[r].sets = 0
                  /\ <<"x-cache", "HIT">> \in req[r].res.headers)
    /\ [][\A r \in ReqIds : req[r].pc = "get" /\ req'[r].pc # "get" => store' = store]_vars

\* a request answered from an entry that is still held, unchanged, with its expiry
C20_Witness ==
    \E r \in ReqIds :
        /\ Done(r) /\ req[r].outcome = "hit" /\ req[r].found = "entry"
        /\ store[CacheKey(req[r].url)].present
        /\ store[CacheKey(req[r].url)].orig = req[r].served
        /\ store[CacheKey(req[r].url)].ex = getCacheTTL(req[r].url.path)
        /\ req[r].calls = 0 /\ req[r].sets = 0

(***************************************************************************)
(* Relay properties: lazy connection, never stuck disconnected.            *)
(***************************************************************************)
NobodyJoined == \A c \in Clients : clientState[c] = "none"
Disconnected == upstreamSocket = 0 \/ sockState[upstreamSocket] \notin {"OPEN", "CONNECTING"}
Joined(c) == clientState[c] = "none" /\ clientState'[c] # "none"

\* C21: no upstream socket exists before the first subscriber joins; a join adds the
\* handle to the subscriber set; a join that finds the relay Disconnected creates a new
\* upstream socket, CONNECTING, in the same step; a join that finds it Connecting or
\* Connected leaves the upstream socket and every socket's state as they are.
C21_LazyConnect ==
    /\ [](NobodyJoined => upstreamSocket = 0 /\ \A s \in Sockets : sockState[s] = "none")
    /\ [][\A c \in Clients :
            Joined(c) =>
                /\ clients' = clients \cup {c}
                /\ IF Disconnected
                   THEN /\ upstreamSocket' \notin {0, upstreamSocket}
                        /\ sockState[upstreamSocket'] = "none"
                        /\ sockState' = [sockState EXCEPT ![upstreamSocket'] = "CONNECTING"]
                   ELSE UNCHANGED <<upstreamSocket, sockState>>]_vars

\* the second subscriber joined while the first upstream socket was closing and
\* no timer was set: its join created the second socket; the first one has since
\* closed as a superseded socket
C21_Witness ==
    /\ clientState[2] = "OPEN"
    /\ upstreamSocket = 2
    /\ sockState[1] = "CLOSED" /\ 1 \in staleClosed
    /\ timers = <<>>

\* C22: once a subscriber has joined, either the current upstream socket exists and
\* has not closed, or a reconnect timer is pending.
C22_NeverStuck ==
    ~NobodyJoined =>
        \/ upstreamSocket # 0 /\ sockState[upstreamSocket] \in {"CONNECTING", "OPEN", "CLOSING"}
        \/ timers # <<>>

\* every subscriber has gone, the upstream socket has closed, and the reconnect timer
\* is pending
C22_Witness ==
    /\ ~NobodyJoined
    /\ clients = {}
    /\ upstreamSocket = 0
    /\ sockState[1] = "CLOSED"
    /\ timers # <<>>

(***************************************************************************)
(* Response cache properties: the miss path after a lookup.                *)
(***************************************************************************)
\* C23: a request served through the miss path carries the handler's status and, as
\* headers, exactly the handler's headers without transfer-encoding plus x-cache:
\* MISS, whatever value the lookup read under the key.
C23_AsClaimed ==
    \A r \in ReqIds :
        Done(r) /\ req[r].outcome = "miss" =>
            /\ req[r].res.status = req[r].resp.status
            /\ req[r].res.headers =
                 SetHeader(CollectHeaders(req[r].resp.headers), "x-cache", "MISS")

====
